---------------------------- MODULE Spec2Model ----------------------------
(***************************************************************************)
(* A model of the go-launcher service supervisor.                          *)
(*                                                                         *)
(* Two launcher variants live in the repository and both are modelled:     *)
(*   "slice"  the current launcher, which keeps the registered units in    *)
(*            the slice Goroutines and owns the shuttingDown flag;         *)
(*   "map"    the older launcher, which keeps the units in the map         *)
(*            servers keyed by name and has no shuttingDown flag.          *)
(*                                                                         *)
(* A unit is known by the number of the Add call that registered it.       *)
(* Units are external: what a unit's Run and Shutdown do is a              *)
(* nondeterministic choice among the behaviours the Goroutine interface    *)
(* allows.  The clock `now` counts whole seconds.                          *)
(***************************************************************************)
EXTENDS Integers, Sequences, FiniteSets, TLC

\* ------------------------------------------------------------------ bounds
\* Add calls, calls of the stop path, shutdown tasks spawned in all, and the
\* last second of the clock.  The host calls Stop once Run has been called.
MaxUnits == 2
MaxTriggers == 2
MaxShutdownTasks == 2
MaxTime == 1

\* ------------------------------------------------------- program constants
DefaultTimeout == 60
Second == 1
SigChCap == 1

Variants == {"slice", "map"}
Ids == {"a", "b"}
TimeoutValues == {1}

VARIABLES
    variant,          \* which launcher is under test; fixed by Init
    ids,              \* ids[u]: the id (name) given with the u-th Add call
    Goroutines,       \* slice variant: srv.Goroutines, a sequence of units
    servers,          \* map variant: srv.servers, name -> unit
    waitGroup,        \* srv.waitGroup's counter (Add increments it)
    shutdownTimeout,  \* srv.shutdownTimeout
    shuttingDown,     \* srv.shuttingDown
    runPc,            \* where Run is: "idle", "waiting" (in wg.Wait), "returned"
    runErr,           \* what Run returned: "none" yet, "nil", "ErrListEmpty"
    wg,               \* Run's local wait group counter
    sigSubscribed,    \* signal.Notify has been called
    sigCh,            \* number of signals buffered in sigCh
    listener,         \* signal listener task: "none", "recv", "flagged", "inStop"
    startOrder,       \* the order in which Run spawned the unit run tasks
    unit,             \* unit[u]: the run task of unit u
    triggers,         \* one record per call of the stop path
    sdTask,           \* sdTask[t][u]: the shutdown task of trigger t for unit u
    now               \* the clock

vars == <<variant, ids, Goroutines, servers, waitGroup, shutdownTimeout,
          shuttingDown, runPc, runErr, wg, sigSubscribed, sigCh, listener,
          startOrder, unit, triggers, sdTask, now>>

\* ----------------------------------------------------------------- helpers
Range(s) == {s[i] : i \in DOMAIN s}

Reverse(s) == [i \in 1..Len(s) |-> s[Len(s) + 1 - i]]

\* All orders in which the members of S can be visited.
Perms(S) == {p \in [1..Cardinality(S) -> S] : \A x \in S : \E i \in DOMAIN p : p[i] = x}

\* Position of unit u in the sequence s (0 when absent).
Pos(s, u) == IF \E i \in DOMAIN s : s[i] = u
             THEN CHOOSE i \in DOMAIN s : s[i] = u
             ELSE 0

\* The units the launcher holds.
Registered == IF variant = "slice" THEN Range(Goroutines) ELSE Range(servers)

\* len(srv.Goroutines) / len(srv.servers)
ListLen == IF variant = "slice" THEN Len(Goroutines) ELSE Cardinality(DOMAIN servers)

NoTask == [st |-> "none", err |-> "nil", class |-> "none"]

\* -------------------------------------------------------------------- New
Init ==
    /\ variant \in Variants
    /\ ids = <<>>
    /\ Goroutines = <<>>
    /\ servers = [n \in {} |-> 0]
    /\ waitGroup = 0
    /\ shutdownTimeout = DefaultTimeout
    /\ shuttingDown = FALSE
    /\ runPc = "idle"
    /\ runErr = "none"
    /\ wg = 0
    /\ sigSubscribed = FALSE
    /\ sigCh = 0
    /\ listener = "none"
    /\ startOrder = <<>>
    /\ unit = <<>>
    /\ triggers = <<>>
    /\ sdTask = <<>>
    /\ now = 0

\* -------------------------------------------------------------------- Add
\* The ids a host can pass to the next Add: one already in use, or a new one.
\* Ids are interchangeable, so the new one is always the first unused id.
IdOrder == <<"a", "b", "c">>

NextIds == {IdOrder[i] : i \in 1..(Cardinality(Range(ids)) + 1)} \cap Ids

\* Add appends to the slice (slice variant) or stores under the name, replacing
\* what the name held (map variant); both count srv.waitGroup up by one.
Add(id) ==
    /\ runPc = "idle"
    /\ Len(ids) < MaxUnits
    /\ ids' = Append(ids, id)
    /\ IF variant = "slice"
       THEN /\ Goroutines' = Append(Goroutines, Len(ids) + 1)
            /\ UNCHANGED servers
       ELSE /\ servers' = [n \in (DOMAIN servers) \cup {id} |->
                              IF n = id THEN Len(ids) + 1 ELSE servers[n]]
            /\ UNCHANGED Goroutines
    /\ waitGroup' = waitGroup + 1
    /\ unit' = Append(unit, NoTask)
    /\ UNCHANGED <<variant, shutdownTimeout, shuttingDown, runPc, runErr, wg,
                   sigSubscribed, sigCh, listener, startOrder, triggers, sdTask, now>>

\* ----------------------------------------------------- SetShutdownTimeout
SetShutdownTimeout(duration) ==
    /\ runPc = "idle"
    /\ shutdownTimeout' = duration
    /\ UNCHANGED <<variant, ids, Goroutines, servers, waitGroup, shuttingDown,
                   runPc, runErr, wg, sigSubscribed, sigCh, listener, startOrder,
                   unit, triggers, sdTask, now>>

\* -------------------------------------------------------------------- Run
\* `if len(srv.Goroutines) <= 0`
ListEmptyLax(n) == n < 0

ListEmpty(n) == n <= 0

\* startGoroutines: `for i := 0; i <= len(srv.Goroutines)-1; i++` spawns the
\* run tasks in slice order; startServers ranges over the map, whose
\* iteration order Go leaves unspecified.
StartOrdersReversed == IF variant = "slice" THEN {Reverse(Goroutines)} ELSE Perms(Range(servers))

StartOrders == IF variant = "slice" THEN {Goroutines} ELSE Perms(Range(servers))

\* `wg.Add(len(srv.Goroutines))`
WgInitShort(n) == IF n > 1 THEN n - 1 ELSE n

WgInit(n) == n

\* Run with an empty list: the early return.
RunEmpty ==
    /\ runPc = "idle"
    /\ ListEmpty(ListLen)
    /\ runPc' = "returned"
    /\ runErr' = "ErrListEmpty"
    /\ UNCHANGED <<variant, ids, Goroutines, servers, waitGroup, shutdownTimeout,
                   shuttingDown, wg, sigSubscribed, sigCh, listener, startOrder,
                   unit, triggers, sdTask, now>>

\* Run up to wg.Wait: subscribe to the signals, spawn the listener, set the
\* wait group, spawn one run task per unit.
RunStart ==
    /\ runPc = "idle"
    /\ ~ListEmpty(ListLen)
    /\ sigSubscribed' = TRUE
    /\ listener' = "recv"
    /\ wg' = WgInit(ListLen)
    /\ \E ord \in StartOrders :
          /\ startOrder' = ord
          /\ unit' = [u \in DOMAIN unit |->
                         IF u \in Range(ord) THEN [unit[u] EXCEPT !.st = "spawned"]
                                             ELSE unit[u]]
    /\ runPc' = "waiting"
    /\ UNCHANGED <<variant, ids, Goroutines, servers, waitGroup, shutdownTimeout,
                   shuttingDown, runErr, sigCh, triggers, sdTask, now>>

\* `wg.Wait()` is over when the counter is zero.
WaitOverEarly(n) == n <= 1

WaitOver(n) == n = 0

\* What Run returns after wg.Wait: `return nil`.
RunResultFirstError ==
    IF \E u \in DOMAIN unit : unit[u].st = "done" /\ unit[u].err # "nil"
    THEN "error"
    ELSE "nil"

RunResult == "nil"

\* wg.Wait returns; Run returns nil.  Run neither stops the listener nor
\* undoes signal.Notify.
RunReturnStopsListener ==
    /\ runPc = "waiting"
    /\ WaitOver(wg)
    /\ runPc' = "returned"
    /\ runErr' = RunResult
    /\ listener' = "none"
    /\ sigSubscribed' = FALSE
    /\ UNCHANGED <<variant, ids, Goroutines, servers, waitGroup, shutdownTimeout,
                   shuttingDown, wg, sigCh, startOrder,
                   unit, triggers, sdTask, now>>

RunReturn ==
    /\ runPc = "waiting"
    /\ WaitOver(wg)
    /\ runPc' = "returned"
    /\ runErr' = RunResult
    /\ UNCHANGED <<variant, ids, Goroutines, servers, waitGroup, shutdownTimeout,
                   shuttingDown, wg, sigSubscribed, sigCh, listener, startOrder,
                   unit, triggers, sdTask, now>>

\* ---------------------------------------------------------- unit run tasks
\* The run task of unit u starts: it logs the start and calls g.Run().
UnitStart(u) ==
    /\ unit[u].st = "spawned"
    /\ unit' = [unit EXCEPT ![u].st = "running"]
    /\ UNCHANGED <<variant, ids, Goroutines, servers, waitGroup, shutdownTimeout,
                   shuttingDown, runPc, runErr, wg, sigSubscribed, sigCh, listener,
                   startOrder, triggers, sdTask, now>>

\* Shutdown has been invoked on unit u by some shutdown task.
ShutdownInvoked(u) ==
    \E t \in DOMAIN sdTask : u \in DOMAIN sdTask[t] /\ sdTask[t][u] # "spawned"

\* How the run task reports what g.Run() returned.  The slice variant reads
\* srv.shuttingDown; the map variant has one message for every error.
ClassifyIgnoringFlag(err, flag) ==
    IF err # "nil"
    THEN IF variant = "slice" THEN "fatal" ELSE "logged"
    ELSE "clean"

Classify(err, flag) ==
    IF err # "nil"
    THEN IF variant = "slice"
         THEN IF flag THEN "expected" ELSE "fatal"
         ELSE "logged"
    ELSE "clean"

\* What wg.Done() does to the counter.
DoneTwice(n) == n - 2

DoneForgotten(n) == n

Done(n) == n - 1

\* The rest of the run task once g.Run() has returned err: report the outcome
\* through the logger, then wg.Done().  The logger is the host's; its calls
\* return.  The task neither stops the other units nor runs the unit again.
unitFinishFailFast(u, err) ==
    /\ unit' = [unit EXCEPT ![u] = [st    |-> "done",
                                    err   |-> err,
                                    class |-> Classify(err, shuttingDown)]]
    /\ wg' = Done(wg)
    /\ shuttingDown' = (shuttingDown \/ err # "nil")
    /\ UNCHANGED <<variant, ids, Goroutines, servers, waitGroup, shutdownTimeout,
                   runPc, runErr, sigSubscribed, sigCh, listener,
                   startOrder, triggers, sdTask, now>>

unitFinish(u, err) ==
    /\ unit' = [unit EXCEPT ![u] = [st    |-> "done",
                                    err   |-> err,
                                    class |-> Classify(err, shuttingDown)]]
    /\ wg' = Done(wg)
    /\ UNCHANGED <<variant, ids, Goroutines, servers, waitGroup, shutdownTimeout,
                   shuttingDown, runPc, runErr, sigSubscribed, sigCh, listener,
                   startOrder, triggers, sdTask, now>>

\* g.Run() returns on its own account (it finished, or it failed), and the run
\* task completes.
UnitRunEnds(u, err) ==
    /\ unit[u].st = "running"
    /\ unitFinish(u, err)

\* g.Run() returns because g.Shutdown was invoked (http.ErrServerClosed from a
\* server, nil from a task that waits on a gate its Shutdown closes), and the
\* run task completes.
UnitRunStopped(u, err) ==
    /\ unit[u].st = "running"
    /\ ShutdownInvoked(u)
    /\ unitFinish(u, err)

\* ------------------------------------------------------------ the stop path
\* `srv.shutdownTimeout*time.Second`
DurationDefault(timeout) == DefaultTimeout * Second

Duration(timeout) == timeout * Second

\* context.WithTimeout: a deadline that has already passed makes the context
\* done at once, with DeadlineExceeded.
NewCtxErr(d) == IF d <= 0 THEN "DeadlineExceeded" ELSE "none"

\* stopGoroutines: `for i := len(srv.Goroutines) - 1; i >= 0; i--` spawns the
\* shutdown tasks in reverse slice order; stopServers ranges over the map.
StopOrdersForward == IF variant = "slice" THEN {Goroutines} ELSE Perms(Range(servers))

StopOrders == IF variant = "slice" THEN {Reverse(Goroutines)} ELSE Perms(Range(servers))

\* The set of units one call of the stop path spawns a shutdown task for.
DispatchedSkipLast(ord) == {ord[i] : i \in 1..(Len(ord) - 1)}

Dispatched(ord) == Range(ord)

\* The number of shutdown tasks spawned so far.
SpawnedShutdownTasks ==
    LET RECURSIVE count(_)
        count(t) == IF t = 0 THEN 0 ELSE Cardinality(DOMAIN sdTask[t]) + count(t - 1)
    IN count(Len(sdTask))

\* Signals received or buffered whose stop path has not started yet.
PendingSignals == sigCh + (IF listener = "flagged" THEN 1 ELSE 0)

\* The model's bounds leave room for one more stop trigger.
CanTrigger ==
    /\ Len(triggers) + PendingSignals < MaxTriggers
    /\ SpawnedShutdownTasks + (PendingSignals + 1) * ListLen <= MaxShutdownTasks

\* The stop path up to the end of its loop: derive the context, spawn one
\* shutdown task per unit.
stopDispatch(src) ==
    /\ \E ord \in StopOrders :
          /\ triggers' = Append(triggers,
                 [src      |-> src,
                  order    |-> ord,
                  deadline |-> now + Duration(shutdownTimeout),
                  err      |-> NewCtxErr(Duration(shutdownTimeout)),
                  returned |-> FALSE])
          /\ sdTask' = Append(sdTask, [u \in Dispatched(ord) |-> "spawned"])

\* What the deferred cancel() leaves in the context.
Cancel(err) == IF err = "none" THEN "Canceled" ELSE err

\* The stop path returns: the deferred cancel() runs.  Nothing in the stop
\* path waits for the shutdown tasks it spawned.
stopReturnJoins(t) ==
    /\ ~triggers[t].returned
    /\ \A u \in DOMAIN sdTask[t] : sdTask[t][u] \in {"nil", "error"}
    /\ triggers' = [triggers EXCEPT ![t].returned = TRUE,
                                    ![t].err = Cancel(triggers[t].err)]

stopReturn(t) ==
    /\ ~triggers[t].returned
    /\ triggers' = [triggers EXCEPT ![t].returned = TRUE,
                                    ![t].err = Cancel(triggers[t].err)]

\* What Stop does to the shutting-down flag: nothing.
StopFlag(flag) == flag

\* srv.shuttingDown is a plain bool field.  The Launcher struct holds no mutex
\* and neither the listener's write nor the run task's read uses an atomic
\* operation or a lock.
FlagAccessLocked == FALSE

\* The listener's next step is the write `srv.shuttingDown = true`.
FlagWritePending == variant = "slice" /\ listener = "recv" /\ sigCh > 0

\* The run task of unit u has yet to read srv.shuttingDown: it does so when
\* g.Run() returns an error, which a running unit can do at any moment.
FlagReadPending(u) == variant = "slice" /\ unit[u].st = "running"

\* Stop(): the stop path, entered by the host.
StopReleasing ==
    /\ runPc # "idle"
    /\ CanTrigger
    /\ stopDispatch("Stop")
    /\ wg' = wg - ListLen
    /\ UNCHANGED <<variant, ids, Goroutines, servers, waitGroup, shutdownTimeout,
                   shuttingDown, runPc, runErr, sigSubscribed, sigCh, listener,
                   startOrder, unit, now>>

Stop ==
    /\ runPc # "idle"
    /\ CanTrigger
    /\ stopDispatch("Stop")
    /\ shuttingDown' = StopFlag(shuttingDown)
    /\ UNCHANGED <<variant, ids, Goroutines, servers, waitGroup, shutdownTimeout,
                   runPc, runErr, wg, sigSubscribed, sigCh, listener,
                   startOrder, unit, now>>

\* Stop() returns to the host.
StopReturn(t) ==
    /\ triggers[t].src = "Stop"
    /\ stopReturn(t)
    /\ UNCHANGED <<variant, ids, Goroutines, servers, waitGroup, shutdownTimeout,
                   shuttingDown, runPc, runErr, wg, sigSubscribed, sigCh, listener,
                   startOrder, unit, sdTask, now>>

\* ------------------------------------------------------------------ signals
\* The OS delivers a subscribed signal: signal.Notify's channel holds one
\* signal and a signal that finds it full is dropped.
Signal ==
    /\ sigSubscribed
    /\ CanTrigger
    /\ sigCh < SigChCap
    /\ sigCh' = sigCh + 1
    /\ UNCHANGED <<variant, ids, Goroutines, servers, waitGroup, shutdownTimeout,
                   shuttingDown, runPc, runErr, wg, sigSubscribed, listener,
                   startOrder, unit, triggers, sdTask, now>>

\* What the listener does to the flag on a signal: the slice variant sets it,
\* the map variant has no flag.
ListenerFlagUnset(flag) == flag

ListenerFlag(flag) == IF variant = "slice" THEN TRUE ELSE flag

\* `sig := <-sigCh`, then `srv.shuttingDown = true` and the log line.
ListenerRecv ==
    /\ listener = "recv"
    /\ sigCh > 0
    /\ sigCh' = sigCh - 1
    /\ shuttingDown' = ListenerFlag(shuttingDown)
    /\ listener' = "flagged"
    /\ UNCHANGED <<variant, ids, Goroutines, servers, waitGroup, shutdownTimeout,
                   runPc, runErr, wg, sigSubscribed, startOrder, unit, triggers,
                   sdTask, now>>

\* The listener enters the stop path.
ListenerStop ==
    /\ listener = "flagged"
    /\ stopDispatch("signal")
    /\ listener' = "inStop"
    /\ UNCHANGED <<variant, ids, Goroutines, servers, waitGroup, shutdownTimeout,
                   shuttingDown, runPc, runErr, wg, sigSubscribed, sigCh,
                   startOrder, unit, now>>

\* The stop path returns to the listener, which loops.  The flag stays set.
ListenerLoopReset(t) ==
    /\ listener = "inStop"
    /\ triggers[t].src = "signal"
    /\ stopReturn(t)
    /\ listener' = "recv"
    /\ shuttingDown' = FALSE
    /\ UNCHANGED <<variant, ids, Goroutines, servers, waitGroup, shutdownTimeout,
                   runPc, runErr, wg, sigSubscribed, sigCh,
                   startOrder, unit, sdTask, now>>

ListenerLoop(t) ==
    /\ listener = "inStop"
    /\ triggers[t].src = "signal"
    /\ stopReturn(t)
    /\ listener' = "recv"
    /\ UNCHANGED <<variant, ids, Goroutines, servers, waitGroup, shutdownTimeout,
                   shuttingDown, runPc, runErr, wg, sigSubscribed, sigCh,
                   startOrder, unit, sdTask, now>>

\* ----------------------------------------------------------- shutdown tasks
\* The shutdown task logs "Trying to stop" and calls g.Shutdown(ctx).
ShutdownInvoke(t, u) ==
    /\ sdTask[t][u] = "spawned"
    /\ sdTask' = [sdTask EXCEPT ![t][u] = "invoked"]
    /\ UNCHANGED <<variant, ids, Goroutines, servers, waitGroup, shutdownTimeout,
                   shuttingDown, runPc, runErr, wg, sigSubscribed, sigCh, listener,
                   startOrder, unit, triggers, now>>

\* g.Shutdown returns without looking at the context (a server's Shutdown
\* called with context.Background()): nil, or an error that is logged.  The
\* shutdown task then ends; it signals nothing to Run.
ShutdownReturnDone(t, u, err) ==
    /\ sdTask[t][u] = "invoked"
    /\ sdTask' = [sdTask EXCEPT ![t][u] = err]
    /\ wg' = IF unit[u].st # "done" THEN Done(wg) ELSE wg
    /\ UNCHANGED <<variant, ids, Goroutines, servers, waitGroup, shutdownTimeout,
                   shuttingDown, runPc, runErr, sigSubscribed, sigCh, listener,
                   startOrder, unit, triggers, now>>

ShutdownReturn(t, u, err) ==
    /\ sdTask[t][u] = "invoked"
    /\ sdTask' = [sdTask EXCEPT ![t][u] = err]
    /\ UNCHANGED <<variant, ids, Goroutines, servers, waitGroup, shutdownTimeout,
                   shuttingDown, runPc, runErr, wg, sigSubscribed, sigCh, listener,
                   startOrder, unit, triggers, now>>

\* g.Shutdown blocks on `<-ctx.Done()` and returns ctx.Err(), a non-nil error
\* (triggers[t].err tells which).
ShutdownCtxDone(t, u) ==
    /\ sdTask[t][u] = "invoked"
    /\ triggers[t].err # "none"
    /\ sdTask' = [sdTask EXCEPT ![t][u] = "error"]
    /\ UNCHANGED <<variant, ids, Goroutines, servers, waitGroup, shutdownTimeout,
                   shuttingDown, runPc, runErr, wg, sigSubscribed, sigCh, listener,
                   startOrder, unit, triggers, now>>

\* -------------------------------------------------------------------- time
\* A second passes; a context whose deadline is reached becomes done.  The
\* launcher sees time only through its contexts, so the clock is advanced only
\* while a live context has a deadline the modelled horizon can reach.
Tick ==
    /\ now < MaxTime
    /\ \E t \in DOMAIN triggers : triggers[t].err = "none" /\ triggers[t].deadline <= MaxTime
    /\ now' = now + 1
    /\ triggers' = [t \in DOMAIN triggers |->
                       IF triggers[t].err = "none" /\ triggers[t].deadline <= now + 1
                       THEN [triggers[t] EXCEPT !.err = "DeadlineExceeded"]
                       ELSE triggers[t]]
    /\ UNCHANGED <<variant, ids, Goroutines, servers, waitGroup, shutdownTimeout,
                   shuttingDown, runPc, runErr, wg, sigSubscribed, sigCh, listener,
                   startOrder, unit, sdTask>>

\* ------------------------------------------------------------ specification
Next ==
    \/ \E id \in NextIds : Add(id)
    \/ \E d \in TimeoutValues : SetShutdownTimeout(d)
    \/ RunEmpty
    \/ RunStart
    \/ RunReturn
    \/ \E u \in DOMAIN unit : UnitStart(u)
    \/ \E u \in DOMAIN unit : \E err \in {"nil", "error"} : UnitRunEnds(u, err)
    \/ \E u \in DOMAIN unit : \E err \in {"nil", "error"} : UnitRunStopped(u, err)
    \/ Stop
    \/ \E t \in DOMAIN triggers : StopReturn(t)
    \/ Signal
    \/ ListenerRecv
    \/ ListenerStop
    \/ \E t \in DOMAIN triggers : ListenerLoop(t)
    \/ \E t \in DOMAIN sdTask : \E u \in DOMAIN sdTask[t] : ShutdownInvoke(t, u)
    \/ \E t \in DOMAIN sdTask : \E u \in DOMAIN sdTask[t] :
          \E err \in {"nil", "error"} : ShutdownReturn(t, u, err)
    \/ \E t \in DOMAIN sdTask : \E u \in DOMAIN sdTask[t] : ShutdownCtxDone(t, u)
    \/ Tick

Spec == Init /\ [][Next]_vars

\* The scheduler runs every task that can take a step, and every unit is
\* conforming: its Run returns once its Shutdown has been invoked.
Fairness ==
    /\ WF_vars(RunReturn)
    /\ WF_vars(ListenerRecv)
    /\ WF_vars(ListenerStop)
    /\ \A u \in 1..MaxUnits : WF_vars(u \in DOMAIN unit /\ UnitStart(u))
    /\ \A u \in 1..MaxUnits :
          WF_vars(u \in DOMAIN unit /\ \E err \in {"nil", "error"} : UnitRunStopped(u, err))
    /\ \A t \in 1..MaxTriggers : \A u \in 1..MaxUnits :
          WF_vars(t \in DOMAIN sdTask /\ u \in DOMAIN sdTask[t] /\ ShutdownInvoke(t, u))

FairSpec == Spec /\ Fairness

\* The scheduler runs a caller that is inside the stop path (the host in
\* Stop, the listener after a signal); nothing is assumed of the units, whose
\* Shutdown may block for ever.
StopFairness ==
    /\ \A t \in 1..MaxTriggers : WF_vars(t \in DOMAIN triggers /\ StopReturn(t))
    /\ \A t \in 1..MaxTriggers : WF_vars(t \in DOMAIN triggers /\ ListenerLoop(t))

StopFairSpec == Spec /\ StopFairness

\* The scheduler runs the listener task: `for { sig := <-sigCh; ... }` takes a
\* buffered signal, enters the stop path, and comes back from it.
ListenerFairness ==
    /\ WF_vars(ListenerRecv)
    /\ WF_vars(ListenerStop)
    /\ \A t \in 1..MaxTriggers : WF_vars(t \in DOMAIN triggers /\ ListenerLoop(t))

ListenerFairSpec == Spec /\ ListenerFairness

\* ------------------------------------------- the timeout in 64-bit arithmetic
\* time.Duration is an int64 count of nanoseconds.  An int64 is held here as
\* its eight bytes, least significant first, in two's complement.
Int64Bytes == 8
ByteBase == 256

\* time.Second, time.Minute, ... in nanoseconds.
Nanosecond == 1
Microsecond == 1000
Millisecond == 1000000
SecondNs == 1000000000
SecondsPerMinute == 60

\* The k low bytes of the natural number n.
RECURSIVE ToBytes(_, _)
ToBytes(n, k) ==
    IF k = 0 THEN <<>> ELSE <<n % ByteBase>> \o ToBytes(n \div ByteBase, k - 1)

\* The sum of the byte products that fall on byte k of a * b.
MulColumn(a, b, k) ==
    LET RECURSIVE sum(_)
        sum(i) ==
            IF i = 0 THEN 0
            ELSE (IF i <= Len(a) /\ k + 1 - i >= 1 /\ k + 1 - i <= Len(b)
                  THEN a[i] * b[k + 1 - i]
                  ELSE 0) + sum(i - 1)
    IN sum(k)

\* Bytes k..n of the product a * b, given the carry into byte k.
RECURSIVE MulBytes(_, _, _, _, _)
MulBytes(a, b, k, carry, n) ==
    IF k > n THEN <<>>
    ELSE LET t == MulColumn(a, b, k) + carry
         IN <<t % ByteBase>> \o MulBytes(a, b, k + 1, t \div ByteBase, n)

\* Go's `a * b` on int64: the low 64 bits of the product.
Int64Mul(a, b) == MulBytes(a, b, 1, 0, Int64Bytes)

\* The product a * b in full, as sixteen bytes.
ExactMul(a, b) == MulBytes(a, b, 1, 0, 2 * Int64Bytes)

\* The sign of an int64.
Int64Zero(x) == \A i \in DOMAIN x : x[i] = 0

Int64Negative(x) == x[Int64Bytes] >= ByteBase \div 2

Int64Positive(x) == ~Int64Negative(x) /\ ~Int64Zero(x)

Int64(n) == ToBytes(n, Int64Bytes)

\* The units a host writes a time.Duration in.
DurationUnits ==
    {Int64(Nanosecond), Int64(Microsecond), Int64(Millisecond), Int64(SecondNs),
     Int64Mul(Int64(SecondsPerMinute), Int64(SecondNs))}

\* The values a host passes to SetShutdownTimeout: a small count of one unit.
MaxCount == 12

RawTimeoutValues ==
    {Int64Mul(Int64(c), of) : c \in 1..MaxCount, of \in DurationUnits}

\* New, with shutdownTimeout as the int64 it is.
RawInit ==
    /\ variant = "slice"
    /\ ids = <<>>
    /\ Goroutines = <<>>
    /\ servers = [n \in {} |-> 0]
    /\ waitGroup = 0
    /\ shutdownTimeout = Int64(DefaultTimeout)
    /\ shuttingDown = FALSE
    /\ runPc = "idle"
    /\ runErr = "none"
    /\ wg = 0
    /\ sigSubscribed = FALSE
    /\ sigCh = 0
    /\ listener = "none"
    /\ startOrder = <<>>
    /\ unit = <<>>
    /\ triggers = <<>>
    /\ sdTask = <<>>
    /\ now = 0

\* SetShutdownTimeout(duration), duration an int64.
RawSetShutdownTimeout(duration) ==
    /\ triggers = <<>>
    /\ shutdownTimeout' = duration
    /\ UNCHANGED <<variant, ids, Goroutines, servers, waitGroup, shuttingDown,
                   runPc, runErr, wg, sigSubscribed, sigCh, listener, startOrder,
                   unit, triggers, sdTask, now>>

\* The head of the stop path: `context.WithTimeout(srv.ctx,
\* srv.shutdownTimeout*time.Second)`.  A timeout that is not positive gives a
\* context that is done at once.
RawDeriveContext ==
    /\ triggers = <<>>
    /\ LET d == Int64Mul(shutdownTimeout, Int64(SecondNs))
       IN triggers' = <<[timeout  |-> shutdownTimeout,
                         duration |-> d,
                         err      |-> IF Int64Positive(d) THEN "none" ELSE "DeadlineExceeded"]>>
    /\ UNCHANGED <<variant, ids, Goroutines, servers, waitGroup, shutdownTimeout,
                   shuttingDown, runPc, runErr, wg, sigSubscribed, sigCh, listener,
                   startOrder, unit, sdTask, now>>

RawNext ==
    \/ \E d \in RawTimeoutValues : RawSetShutdownTimeout(d)
    \/ RawDeriveContext

DurationSpec == RawInit /\ [][RawNext]_vars

\* ======================================================================
\* Claims
\* ======================================================================

\* Units in the order of their Add calls: unit A was added before unit B
\* exactly when A < B.
AddedBefore(a, b) == a < b

\* A stop has been requested: a signal is buffered or being handled, or the
\* stop path has run.
StopRequested == Len(triggers) > 0 \/ PendingSignals > 0

\* C1: with at least one registered unit, Run has not returned while some
\* registered unit's run operation has not returned, and what Run then returns
\* is nil.
C1_RunWaitsForAllUnits ==
    (runPc = "returned" /\ ListLen >= 1) =>
        /\ \A u \in Registered : unit[u].st = "done"
        /\ runErr = "nil"

\* C1 witness: Run has returned nil with two registered units, after a stop
\* trigger and after one unit ended by itself with an error.
C1_Witness ==
    /\ runPc = "returned"
    /\ runErr = "nil"
    /\ Cardinality(Registered) = 2
    /\ Len(triggers) > 0
    /\ \E u \in Registered : unit[u].err = "error"

\* C2: a Run step taken with no registered unit returns the empty-list error
\* in that very step, subscribes to no signal, spawns no listener and no run
\* task, and leaves the units, the timeout and the flag as they were.
C2_RunEmptySpawnsNothing ==
    [][(runPc = "idle" /\ ListLen = 0 /\ runPc' # "idle") =>
          /\ runPc' = "returned"
          /\ runErr' = "ErrListEmpty"
          /\ ~sigSubscribed' /\ listener' = "none"
          /\ startOrder' = <<>>
          /\ \A u \in DOMAIN unit' : unit'[u].st = "none"
          /\ UNCHANGED <<ids, Goroutines, servers, waitGroup, shutdownTimeout,
                         shuttingDown, unit, wg, sigCh, triggers, sdTask>>]_vars

\* C2 witness: Run has returned the empty-list error on a launcher whose
\* timeout had been set.
C2_Witness ==
    /\ runPc = "returned"
    /\ runErr = "ErrListEmpty"
    /\ shutdownTimeout = 1
    /\ ~sigSubscribed

\* C3: Run returns an error exactly when no unit is registered; otherwise it
\* returns nil, whatever the units' run and shutdown calls returned.
C3_RunErrorIffEmpty ==
    runPc = "returned" =>
        /\ runErr \in {"nil", "ErrListEmpty"}
        /\ (runErr = "ErrListEmpty") <=> (ListLen = 0)

\* C3 witness: Run has returned nil although a unit's run returned an error
\* and a shutdown call returned an error on a context whose deadline passed.
C3_Witness ==
    /\ runPc = "returned"
    /\ runErr = "nil"
    /\ \E u \in Registered : unit[u].err = "error"
    /\ \E t \in DOMAIN sdTask : \E u \in DOMAIN sdTask[t] :
          sdTask[t][u] = "error" /\ triggers[t].err = "DeadlineExceeded"

\* C4: with conforming units and a fair scheduler, once a stop has been
\* requested (a signal delivered or Stop called) while Run is blocked, Run
\* eventually returns nil.
C4_StopLeadsToRunReturn ==
    (runPc = "waiting" /\ StopRequested) ~> (runPc = "returned" /\ runErr = "nil")

\* C4 witness: Run has returned after a single stop trigger made both units'
\* run operations return.
C4_Witness ==
    /\ runPc = "returned"
    /\ Len(triggers) = 1
    /\ Cardinality(Registered) = 2
    /\ \A u \in Registered : ShutdownInvoked(u) /\ unit[u].st = "done"

\* C5 (as claimed): a shutdown call blocked on its context sees the context
\* done only once the shutdown timeout has elapsed since the trigger, and then
\* with the deadline-exceeded error.
C5_ContextDoneOnlyAtDeadline ==
    \A t \in DOMAIN sdTask : \A u \in DOMAIN sdTask[t] :
        (sdTask[t][u] = "invoked" /\ triggers[t].err # "none") =>
            /\ triggers[t].err = "DeadlineExceeded"
            /\ now >= triggers[t].deadline

\* The order of one round of spawns puts units added later first.
ReverseOfAdd(ord) ==
    \A a \in Range(ord) : \A b \in Range(ord) :
        AddedBefore(a, b) => Pos(ord, b) < Pos(ord, a)

\* The order of one round of spawns puts units added earlier first.
SameAsAdd(ord) ==
    \A a \in Range(ord) : \A b \in Range(ord) :
        AddedBefore(a, b) => Pos(ord, a) < Pos(ord, b)

\* The order visits every registered unit exactly once.
VisitsAll(ord) == Range(ord) = Registered /\ Len(ord) = Cardinality(Registered)

\* C6 (as claimed): in every variant, each stop trigger spawns the shutdown
\* tasks in the reverse of the Add order.
C6_ReverseStopOrderEveryVariant ==
    \A t \in DOMAIN triggers : ReverseOfAdd(triggers[t].order)

\* C6 (amended): in the slice-based launcher each stop trigger spawns the
\* shutdown tasks in the reverse of the Add order; in either variant a trigger
\* visits every registered unit exactly once.
C6_ReverseStopOrderSlice ==
    \A t \in DOMAIN triggers :
        /\ VisitsAll(triggers[t].order)
        /\ variant = "slice" => ReverseOfAdd(triggers[t].order)

\* C6 witness: a trigger of the slice-based launcher has spawned the shutdown
\* tasks of two units.
C6_Witness ==
    /\ variant = "slice"
    /\ \E t \in DOMAIN triggers : triggers[t].order = <<2, 1>>

\* C7 (as claimed): in every variant, Run spawns the run tasks in Add order.
C7_StartOrderEveryVariant == SameAsAdd(startOrder)

\* C7 (amended): the slice-based launcher spawns the run tasks in Add order;
\* in either variant a started Run has spawned every registered unit's run
\* task exactly once.
C7_StartOrderSlice ==
    /\ runPc = "waiting" => VisitsAll(startOrder)
    /\ variant = "slice" => SameAsAdd(startOrder)

\* C7 witness: the slice-based launcher has spawned the run tasks of two units.
C7_Witness ==
    /\ variant = "slice"
    /\ startOrder = <<1, 2>>
    /\ \A u \in {1, 2} : unit[u].st # "none"

\* C8 (as claimed): once Stop has been called the shutting-down flag is set,
\* and a run task that finds a non-nil error after a Stop reports an expected
\* termination.
C8_StopSetsShuttingDown ==
    [][variant = "slice" =>
          /\ (\E t \in DOMAIN triggers' : triggers'[t].src = "Stop") => shuttingDown'
          /\ \A u \in DOMAIN unit :
                (/\ unit[u].st = "running"
                 /\ unit'[u].st = "done"
                 /\ unit'[u].err = "error"
                 /\ \E t \in DOMAIN triggers : triggers[t].src = "Stop")
                => unit'[u].class = "expected"]_vars

\* The shutdown task of trigger t for unit u exists and is in one of states.
TaskIs(t, u, states) ==
    t \in DOMAIN sdTask /\ u \in DOMAIN sdTask[t] /\ sdTask[t][u] \in states

\* C9: every stop trigger spawns exactly one shutdown task for every
\* registered unit, so after k triggers every unit has k of them; and every
\* spawned shutdown task invokes Shutdown, whether or not the shutdown calls of
\* the other units have returned.
C9_EveryTriggerReachesEveryUnit ==
    /\ [](/\ Len(sdTask) = Len(triggers)
          /\ \A t \in DOMAIN triggers :
                VisitsAll(triggers[t].order) /\ DOMAIN sdTask[t] = Registered
          /\ \A u \in Registered :
                Cardinality({t \in DOMAIN sdTask : u \in DOMAIN sdTask[t]}) = Len(triggers))
    /\ \A t \in 1..MaxTriggers : \A u \in 1..MaxUnits :
          TaskIs(t, u, {"spawned"}) ~> TaskIs(t, u, {"invoked", "nil", "error"})

\* C9 witness: a second trigger's shutdown call is in progress on a unit whose
\* first shutdown call returned an error.
C9_Witness ==
    /\ Len(triggers) = 2
    /\ \E u \in Registered : sdTask[1][u] = "error" /\ sdTask[2][u] = "invoked"

\* C10: however often and in whatever interleaving the stop path runs, it
\* leaves the registered units and both wait groups alone, the counter Run
\* waits on never goes below zero, and after two triggers Run still returns.
C10_StopIdempotent ==
    /\ [](wg >= 0)
    /\ [][Len(triggers') > Len(triggers) =>
             UNCHANGED <<ids, Goroutines, servers, waitGroup, wg>>]_vars
    /\ (runPc = "waiting" /\ Len(triggers) >= 2) ~> (runPc = "returned" /\ runErr = "nil")

\* C10 witness: a Stop call and the signal listener are in the stop path at
\* the same time while Run is blocked.
C10_Witness ==
    /\ runPc = "waiting"
    /\ Len(triggers) = 2
    /\ {triggers[1].src, triggers[2].src} = {"Stop", "signal"}
    /\ ~triggers[1].returned /\ ~triggers[2].returned

\* A Stop call that has spawned its shutdown tasks and not yet returned.
StopInProgress(t) ==
    t \in DOMAIN triggers /\ triggers[t].src = "Stop" /\ ~triggers[t].returned

\* A Stop call that has returned.
StopReturned(t) ==
    t \in DOMAIN triggers /\ triggers[t].src = "Stop" /\ triggers[t].returned

\* C11: Stop is fire-and-forget.  A Stop call that has spawned its shutdown
\* tasks can return at once, whatever state those tasks are in; its return
\* touches no shutdown task; and with nothing assumed of the units (their
\* Shutdown may never return) every Stop call returns.
C11_StopFireAndForget ==
    /\ [](\A t \in 1..MaxTriggers : StopInProgress(t) => ENABLED StopReturn(t))
    /\ [][\A t \in DOMAIN triggers :
             (StopInProgress(t) /\ triggers'[t].returned) => UNCHANGED <<sdTask, unit, wg>>]_vars
    /\ \A t \in 1..MaxTriggers : StopInProgress(t) ~> StopReturned(t)

\* C11 witness: Stop has returned while the shutdown calls it dispatched to
\* two units are both still blocked inside Shutdown.
C11_Witness ==
    /\ Cardinality(Registered) = 2
    /\ \E t \in DOMAIN triggers :
          /\ StopReturned(t)
          /\ \A u \in Registered : sdTask[t][u] = "invoked"

\* C12 (as claimed): in every variant, whatever ids the Add calls were given,
\* a started Run has spawned one run task per Add call, Run returns nil only
\* when the run operation of every added unit has returned, and every stop
\* trigger spawns a shutdown task for every added unit.
C12_DuplicateIdsHarmless ==
    /\ runPc = "waiting" => \A u \in DOMAIN unit : unit[u].st # "none"
    /\ (runPc = "returned" /\ runErr = "nil") => \A u \in DOMAIN unit : unit[u].st = "done"
    /\ \A t \in DOMAIN sdTask : DOMAIN sdTask[t] = DOMAIN unit

\* The run operation of unit u has returned in this step.
RunOpReturns(u) == unit[u].st = "running" /\ unit'[u].st = "done"

C14_PendingShutdownBlocksRun ==
    [][(runPc = "waiting" /\ runPc' = "returned") =>
          \A t \in DOMAIN sdTask : \A u \in DOMAIN sdTask[t] : sdTask[t][u] # "invoked"]_vars

\* C15: sibling isolation.  The step in which a unit's run operation returns,
\* with or without an error, dispatches no shutdown call, leaves the
\* shutting-down flag, the listener and every other unit's run task as they
\* were, and does not make Run return; a run task that has completed is never
\* run again; and Run cannot return while another unit's run operation has
\* not returned.
C15_SiblingIsolation ==
    /\ [][\A u \in DOMAIN unit : RunOpReturns(u) =>
             /\ UNCHANGED <<triggers, sdTask, shuttingDown, listener, sigCh, runPc>>
             /\ \A v \in DOMAIN unit \ {u} : unit'[v] = unit[v]]_vars
    /\ [][\A u \in DOMAIN unit : unit[u].st = "done" => unit'[u] = unit[u]]_vars
    /\ []((runPc = "waiting" /\ \E u \in Registered : unit[u].st # "done")
              => ~ENABLED RunReturn)

\* C15 witness: with no stop requested, one unit's run operation has returned
\* an error, reported as an unexpected failure, while the other unit is still
\* running and Run is still blocked.
C15_Witness ==
    /\ runPc = "waiting"
    /\ ~StopRequested /\ ~shuttingDown
    /\ \E u \in Registered : \E v \in Registered :
          /\ unit[u].st = "done" /\ unit[u].class = "fatal"
          /\ unit[v].st = "running"

\* C16: error classification.  When a unit's run operation returns, a nil
\* return is reported as a clean termination; in the launcher that has the
\* shutting-down flag a non-nil error is reported as an expected termination
\* if the flag is set when the run task inspects it and as an unexpected
\* (fatal-severity) failure otherwise; and whatever the report, the run task
\* signals its completion, counting Run's wait group down by one.
C16_ErrorClassification ==
    [][\A u \in DOMAIN unit : RunOpReturns(u) =>
          /\ wg' = wg - 1
          /\ unit'[u].err = "nil" => unit'[u].class = "clean"
          /\ (variant = "slice" /\ unit'[u].err # "nil") =>
                unit'[u].class = IF shuttingDown THEN "expected" ELSE "fatal"]_vars

\* C16 witness: one unit's error was reported as an unexpected failure before
\* any signal, the other unit's error as an expected termination after the
\* signal set the flag, and both completions were signalled.
C16_Witness ==
    /\ variant = "slice"
    /\ wg = 0
    /\ \E u \in Registered : \E v \in Registered :
          /\ unit[u].err = "error" /\ unit[u].class = "fatal"
          /\ unit[v].err = "error" /\ unit[v].class = "expected"

\* A shutdown call dispatched by a signal trigger has been invoked on unit u.
SignalShutdownInvoked(u) ==
    \E t \in DOMAIN sdTask :
        triggers[t].src = "signal" /\ u \in DOMAIN sdTask[t] /\ sdTask[t][u] # "spawned"

\* C17: on the signal path the flag is set before the trigger dispatches any
\* shutdown call: in the launcher that has the flag, the flag is set in every
\* state where the listener is about to enter, or has entered, the stop path,
\* and the step in which a signal trigger spawns its shutdown tasks starts
\* with the flag set.  Hence a unit whose run operation returns an error after
\* a signal-triggered shutdown call was invoked on it is never reported as an
\* unexpected (fatal) failure.
C17_FlagBeforeSignalDispatch ==
    /\ [](variant = "slice" =>
             ((listener \in {"flagged", "inStop"}
               \/ \E t \in DOMAIN triggers : triggers[t].src = "signal") => shuttingDown))
    /\ [][(variant = "slice" /\ Len(triggers') > Len(triggers)
              /\ triggers'[Len(triggers')].src = "signal") => shuttingDown]_vars
    /\ [][\A u \in DOMAIN unit :
             (RunOpReturns(u) /\ unit'[u].err # "nil" /\ SignalShutdownInvoked(u))
                => unit'[u].class # "fatal"]_vars

\* C17 witness: with no Stop call at all, a signal-triggered shutdown call was
\* invoked on a unit, whose run operation then returned an error that was
\* reported as an expected termination.
C17_Witness ==
    /\ variant = "slice"
    /\ \A t \in DOMAIN triggers : triggers[t].src = "signal"
    /\ \E u \in Registered :
          /\ SignalShutdownInvoked(u)
          /\ unit[u].st = "done" /\ unit[u].err = "error" /\ unit[u].class = "expected"

\* The registered units whose run operation has not returned.
Pending == {u \in Registered : unit[u].st # "done"}

\* C18: completion barrier.  While Run is blocked the counter it waits on
\* equals the number of registered units whose run operation has not
\* returned.  It starts at the number of registered units (in the slice-based
\* launcher, the number of Add calls), each return of a run operation counts
\* it down by exactly one whatever the outcome and nothing else changes it,
\* it is never negative, and it is zero exactly when every run operation has
\* returned.
C18_CompletionBarrier ==
    /\ [](runPc = "waiting" => wg = Cardinality(Pending))
    /\ [](wg >= 0 /\ (runPc = "waiting" => (wg = 0 <=> Pending = {})))
    /\ [][(runPc = "idle" /\ runPc' = "waiting") =>
             /\ wg' = Cardinality(Registered)
             /\ variant = "slice" => (wg' = Len(ids) /\ wg' = waitGroup)]_vars
    /\ [][runPc = "waiting" =>
             /\ \A u \in DOMAIN unit : RunOpReturns(u) => wg' = wg - 1
             /\ wg' # wg => Cardinality({u \in DOMAIN unit : RunOpReturns(u)}) = 1]_vars

\* C18 witness: Run is blocked with the counter at one, after one unit's run
\* operation returned an error reported as an unexpected failure and while
\* the other unit is still running.
C18_Witness ==
    /\ runPc = "waiting"
    /\ wg = 1
    /\ Cardinality(Registered) = 2
    /\ \E u \in Registered : unit[u].st = "done" /\ unit[u].class = "fatal"
    /\ \E u \in Registered : unit[u].st = "running"

\* This step is a call of the stop path: it derives a context and spawns the
\* shutdown tasks of a new trigger.
NewTrigger == Len(triggers') = Len(triggers) + 1

\* C19: shared deadline and timeout configuration.  A stop trigger derives
\* one context, whose deadline is the time of the trigger plus the shutdown
\* timeout then in force, and hands that context to every shutdown task it
\* spawns, one per registered unit; a deadline once given never moves.  The
\* timeout is 60 until SetShutdownTimeout is called, then the value last set;
\* only SetShutdownTimeout changes it, so the value set before Run is the one
\* in force at the first and at every later trigger; and SetShutdownTimeout
\* changes nothing but the timeout.
C19_SharedDeadline ==
    /\ shutdownTimeout = 60
    /\ [][NewTrigger =>
             /\ triggers'[Len(triggers')].deadline = now + shutdownTimeout * Second
             /\ DOMAIN sdTask'[Len(triggers')] = Registered
             /\ \A t \in DOMAIN triggers : triggers'[t].deadline = triggers[t].deadline
             /\ UNCHANGED shutdownTimeout]_vars
    /\ [][\A t \in DOMAIN triggers : triggers'[t].deadline = triggers[t].deadline]_vars
    /\ [][shutdownTimeout' # shutdownTimeout =>
             /\ runPc = "idle"
             /\ shutdownTimeout' \in TimeoutValues
             /\ UNCHANGED <<variant, ids, Goroutines, servers, waitGroup, shuttingDown,
                            runPc, runErr, wg, sigSubscribed, sigCh, listener,
                            startOrder, unit, triggers, sdTask, now>>]_vars

\* C19 witness: with the timeout set to 1 before Run, a first trigger at time
\* 0 got the deadline 1 and a second trigger at time 1 got the deadline 2.
C19_Witness ==
    /\ shutdownTimeout = 1
    /\ Len(triggers) = 2
    /\ triggers[1].deadline = 1
    /\ triggers[2].deadline = 2

\* C20 (as claimed): accesses to the shutting-down flag are serialized.  The
\* listener's write and a run task's read belong to different tasks; when
\* both are the next step of their task, either can come first, and that is a
\* data race unless the accesses are locked or atomic.
C20_FlagAccessSerialized ==
    \A u \in DOMAIN unit : (FlagWritePending /\ FlagReadPending(u)) => FlagAccessLocked

\* The signal path has begun a shutdown: the listener has taken a signal.
SignalShutdownBegun ==
    listener \in {"flagged", "inStop"} \/ \E t \in DOMAIN triggers : triggers[t].src = "signal"

\* C21: the shutting-down flag is monotonic.  It is false at construction and
\* stays false as long as no shutdown has begun; once true, no step (Add,
\* SetShutdownTimeout, Run, Stop, a further signal, a unit completion, Run's
\* return) makes it false again.
C21_FlagMonotonic ==
    /\ ~shuttingDown
    /\ [](shuttingDown => SignalShutdownBegun)
    /\ [](~StopRequested => ~shuttingDown)
    /\ [][shuttingDown => shuttingDown']_vars

\* C21 witness: the flag is still set after Run has returned, after a Stop
\* call and after the listener has gone back to waiting for signals.
C21_Witness ==
    /\ shuttingDown
    /\ runPc = "returned"
    /\ listener = "recv"
    /\ \E t \in DOMAIN triggers : triggers[t].src = "Stop" /\ triggers[t].returned
    /\ \E t \in DOMAIN triggers : triggers[t].src = "signal" /\ triggers[t].returned

\* C22: the signal listener is outside the completion barrier and outlives
\* Run.  No step of the listener changes the counter Run waits on; Run's
\* return leaves the listener and the signal subscription as they were, so
\* after Run has returned nil the listener is still there; and whenever a
\* signal is buffered, before or after Run's return and whether or not it is
\* the first, the listener takes it, enters the stop path with a new trigger
\* that spawns a shutdown task for every registered unit, and goes back to
\* waiting.
C22_ListenerOutlivesRun ==
    /\ [][(runPc # "idle" /\ listener' # listener) => wg' = wg]_vars
    /\ [][runPc' # runPc => (runPc = "idle" \/ UNCHANGED <<listener, sigSubscribed, sigCh>>)]_vars
    /\ []((runPc = "returned" /\ runErr = "nil") => (listener # "none" /\ sigSubscribed))
    /\ [][(listener = "flagged" /\ listener' = "inStop") =>
             /\ NewTrigger
             /\ triggers'[Len(triggers')].src = "signal"
             /\ DOMAIN sdTask'[Len(triggers')] = Registered]_vars
    /\ (sigCh > 0) ~> (listener = "flagged")
    /\ (listener = "flagged") ~> (listener = "inStop")
    /\ (listener = "inStop") ~> (listener = "recv")

\* C22 witness: Run has returned, a first signal's stop path is over, and a
\* second signal has been handled by a new trigger whose shutdown task has
\* just been spawned.
C22_Witness ==
    /\ runPc = "returned" /\ runErr = "nil"
    /\ Len(triggers) = 2
    /\ triggers[1].src = "signal" /\ triggers[1].returned
    /\ triggers[2].src = "signal"
    /\ \A u \in Registered : sdTask[1][u] \in {"nil", "error"} /\ sdTask[2][u] = "spawned"

\* C23 (as claimed): Shutdown is invoked on a unit only after the unit's run
\* task has invoked its run operation.
C23_ShutdownOnlyAfterRunInvoked ==
    \A u \in DOMAIN unit : ShutdownInvoked(u) => unit[u].st \in {"running", "done"}

\* C24 (as claimed): for every positive timeout value v, the duration the stop
\* path derives, v * time.Second in int64, is positive and is the exact
\* product (nothing was lost to wrap-around), so the context is not done at
\* once.
C24_DurationExact ==
    \A t \in DOMAIN triggers :
        Int64Positive(triggers[t].timeout) =>
            /\ Int64Positive(triggers[t].duration)
            /\ ExactMul(triggers[t].timeout, Int64(SecondNs))
                  = triggers[t].duration \o Int64(0)
            /\ triggers[t].err = "none"

=============================================================================
